---- MODULE Spec2Model ----
(***************************************************************************)
(* Model of src/streamlit_app.py: a Streamlit administration screen over   *)
(* four store tables (brands, part_groups, products, stock).               *)
(*                                                                         *)
(* One script run of main() is one user action.  A run is modelled at the  *)
(* granularity of the store round trips that matter for the delete guards: *)
(*   idle   --(render + handler, up to the guard query)-->  decide         *)
(*   decide --(veto or delete call)-->                      flush          *)
(*   flush  --(main(), lines 505-508: show and clear the queue)--> idle    *)
(* Handlers without a guard go from idle to flush in one step.             *)
(*                                                                         *)
(* Every store call may fail (the adapter catches the fault and returns    *)
(* [] or False); the fault is an input of the action that issues the call. *)
(* The listing queries that render the widgets of a handler read the store *)
(* in the same step as the handler's first call; a listing that fails      *)
(* leaves the screen without the form or the button (no handler runs and   *)
(* nothing is queued), except in the second tabs, where the missing rows   *)
(* raise and the except branch queues a message.                           *)
(* The store is the one of spec section 6: six operation shapes over four  *)
(* tables, ids from a sequence, no constraint between the tables.  Rows    *)
(* are returned in ascending id order.  Product and stock rows carry the   *)
(* columns the handlers branch on or select by; genuine_code,              *)
(* compatible_code, remarks, condition and image_url are passed through    *)
(* unread and are left out.  User-facing texts are given in English; a     *)
(* message is the sequence of the fragments of its f-string.  The search   *)
(* tabs are not modelled (the search boxes stay empty).                    *)
(***************************************************************************)
EXTENDS Integers, Sequences, FiniteSets, TLC

(* ---------------------------- bounds ---------------------------------- *)
\* rows ever inserted over all tables, and per table (the store's id
\* sequences are capped)
MaxInserts == 5
MaxBrands == 1
MaxGroups == 3
MaxProducts == 2
MaxStock == 1
\* largest stock quantity a user enters
MaxQty == 1

Names == {"a", "b"}
BrandNames == {"a"}
Codes == {"c"}
\* what a text_input can deliver: any text, also the empty one
NameInputs == Names \cup {""}
CodeInputs == Codes \cup {""}
\* quantity payloads handed to the stock handlers.  The number_input widgets
\* ask the browser for min_value=0 (lines 271, 303); validate_stock_data is
\* the handlers' own check of the payload, so the handlers are modelled for a
\* negative payload too.
QtyInputs == (0 - 1)..MaxQty

Sessions == {1, 2}
Tables == {"brands", "part_groups", "products", "stock"}

\* Python's None / SQL NULL; ids assigned by the store are positive
None == 0

VARIABLES
    db,        \* db[t]: the rows of table t, a function from id to record
    next_id,   \* next_id[t]: the id the store assigns to the next insert
    pc,        \* pc[s]: position of session s inside its current run
    messages,  \* messages[s]: st.session_state.messages of session s
    calls,     \* calls[s]: store calls issued so far by the current run
    local      \* local[s]: locals of a delete handler between check and decide

vars == <<db, next_id, pc, messages, calls, local>>

(* --------------------------- helpers ---------------------------------- *)
RECURSIVE SortedSeq(_)
SortedSeq(S) ==
    IF S = {} THEN <<>>
    ELSE LET m == CHOOSE x \in S : \A y \in S : x <= y
         IN <<m>> \o SortedSeq(S \ {m})

Range(q) == {q[i] : i \in 1..Len(q)}

Row(base, t, i) == [id |-> i] @@ base[t][i]

Has(rows, key, value) == \E i \in 1..Len(rows) : rows[i][key] = value

\* next((x for x in rows if x[key] == value), None), for a value that occurs
First(rows, key, value) ==
    rows[CHOOSE i \in 1..Len(rows) :
             /\ rows[i][key] = value
             /\ \A j \in 1..(i - 1) : rows[j][key] # value]

\* next((x["id"] for x in rows if x[key] == value), None)
FirstId(rows, key, value) ==
    IF Has(rows, key, value) THEN First(rows, key, value).id ELSE None

Inserted == next_id["brands"] + next_id["part_groups"]
            + next_id["products"] + next_id["stock"] - 4

Cap == [brands |-> MaxBrands, part_groups |-> MaxGroups,
        products |-> MaxProducts, stock |-> MaxStock]

\* the store still has an id to hand out
CanInsert(table) == Inserted < MaxInserts /\ next_id[table] <= Cap[table]

\* one store round trip: the operation, its table, its equality filter, and
\* whether the round trip failed (the adapter's except branch)
Call(op, table, key, val, failed) ==
    [op |-> op, table |-> table, key |-> key, val |-> val, failed |-> failed]

\* the locals of the handler a run executes: which handler, the target row
\* (id, name), the number of dependents the guard query returned, the payload
Loc(kind, id, name, n, data) ==
    [kind |-> kind, id |-> id, name |-> name, n |-> n, data |-> data]

NoData == <<>>
NoLocal == Loc("none", None, "", 0, NoData)

(* ----------------------- query client adapter ------------------------- *)
\* get_data: equality filters, a filter whose value is None is skipped;
\* a failed round trip returns the empty list
get_data(base, table, filters, fault) ==
    IF fault THEN <<>>
    ELSE LET hit == {i \in DOMAIN base[table] :
                        \A k \in DOMAIN filters :
                            filters[k] # None => base[table][i][k] = filters[k]}
             ids == SortedSeq(hit)
         IN [j \in 1..Len(ids) |-> Row(base, table, ids[j])]

NoFilters == <<>>

get_brands(base, fault) == get_data(base, "brands", NoFilters, fault)

get_partgroup1(base, fault) ==
    get_data(base, "part_groups", [parent_id |-> None], fault)

get_partgroup2(base, partgroup1_id, fault) ==
    get_data(base, "part_groups", [parent_id |-> partgroup1_id], fault)

\* insert_data: the store assigns the id; True iff the store returned the row
insert_ok(fault) == ~fault
insert_data(base, table, data, fault) ==
    IF fault THEN base
    ELSE [base EXCEPT ![table] = (next_id[table] :> data) @@ base[table]]

\* update_data: True iff at least one row was affected
update_ok(base, table, id, fault) == ~fault /\ id \in DOMAIN base[table]
update_data(base, table, data, id, fault) ==
    IF update_ok(base, table, id, fault)
    THEN [base EXCEPT ![table] = [@ EXCEPT ![id] = data]]
    ELSE base

\* delete_data: True iff at least one row was affected
delete_ok(base, table, id, fault) == ~fault /\ id \in DOMAIN base[table]
delete_data(base, table, id, fault) ==
    IF delete_ok(base, table, id, fault)
    THEN [base EXCEPT ![table] = [i \in (DOMAIN @) \ {id} |-> @[i]]]
    ELSE base

(* --------------------------- validation ------------------------------- *)
MsgProductNameRequired == <<"enter the product name">>
MsgProductCodeRequired == <<"enter the product code">>
MsgQuantityNegative == <<"quantity must be 0 or more">>
MsgEmpty == <<"">>

\* the two checks in the other order
validate_product_data_CodeFirst(data) ==
    IF data.product_code = "" THEN [valid |-> FALSE, msg |-> MsgProductCodeRequired]
    ELSE IF data.product_name = "" THEN [valid |-> FALSE, msg |-> MsgProductNameRequired]
    ELSE [valid |-> TRUE, msg |-> MsgEmpty]

\* the product-code test inverted
validate_product_data_CodeInverted(data) ==
    IF data.product_name = "" THEN [valid |-> FALSE, msg |-> MsgProductNameRequired]
    ELSE IF data.product_code # "" THEN [valid |-> FALSE, msg |-> MsgProductCodeRequired]
    ELSE [valid |-> TRUE, msg |-> MsgEmpty]

validate_product_data(data) ==
    IF data.product_name = "" THEN [valid |-> FALSE, msg |-> MsgProductNameRequired]
    ELSE IF data.product_code = "" THEN [valid |-> FALSE, msg |-> MsgProductCodeRequired]
    ELSE [valid |-> TRUE, msg |-> MsgEmpty]

\* the bound off by one
validate_stock_data_OffByOne(data) ==
    IF data.quantity < 0 - 1 THEN [valid |-> FALSE, msg |-> MsgQuantityNegative]
    ELSE [valid |-> TRUE, msg |-> MsgEmpty]

validate_stock_data(data) ==
    IF data.quantity < 0 THEN [valid |-> FALSE, msg |-> MsgQuantityNegative]
    ELSE [valid |-> TRUE, msg |-> MsgEmpty]

(* ----------------------------- messages ------------------------------- *)
MsgBrandAdded(name) == <<"brand '", name, "' added">>
MsgBrandNameRequired == <<"enter the brand name">>
\* the brand delete and the group-2 delete use the same text
MsgLinkedProducts(n) == <<"linked products: ", ToString(n), ", cannot delete">>
MsgBrandDeleted(name) == <<"brand '", name, "' deleted">>
MsgGroup1Added(name) == <<"part group 1 '", name, "' added">>
MsgGroup2Added(name) == <<"part group 2 '", name, "' added">>
MsgGroupNameRequired == <<"enter the group name">>
MsgSubgroups(n) == <<"subgroups: ", ToString(n), ", cannot delete">>
MsgGroupDeleted(name) == <<"group '", name, "' deleted">>

(* --------------------------- initial state ---------------------------- *)
Init ==
    /\ db = [t \in Tables |-> <<>>]
    /\ next_id = [t \in Tables |-> 1]
    /\ pc = [s \in Sessions |-> "idle"]
    /\ messages = [s \in Sessions |-> <<>>]
    /\ calls = [s \in Sessions |-> <<>>]
    /\ local = [s \in Sessions |-> NoLocal]

\* common shape of a handler's last step: the run ends in the flush position
Finish(s, base, msgs, log, loc) ==
    /\ db' = base
    /\ messages' = [messages EXCEPT ![s] = @ \o msgs]
    /\ calls' = [calls EXCEPT ![s] = @ \o log]
    /\ pc' = [pc EXCEPT ![s] = "flush"]
    /\ local' = [local EXCEPT ![s] = loc]

Bump(table, ok) ==
    next_id' = IF ok THEN [next_id EXCEPT ![table] = @ + 1] ELSE next_id

\* `if name and insert_data(...)`: success text, else the "enter the name" text
AddNamed(s, kind, table, data, name, fault, okMsg, elseMsg) ==
    IF name # ""
    THEN /\ CanInsert(table)
         /\ Finish(s, insert_data(db, table, data, fault),
                   IF insert_ok(fault) THEN <<okMsg>> ELSE <<elseMsg>>,
                   <<Call("insert", table, "", None, fault)>>,
                   Loc(kind, None, name, 0, data))
         /\ Bump(table, insert_ok(fault))
    ELSE /\ Finish(s, db, <<elseMsg>>, <<>>, Loc(kind, None, name, 0, data))
         /\ UNCHANGED next_id

\* the guard left out: no dependents query, nothing found
Check_NoQuery(s, kind, row, name, depTable, depKey, fault) ==
    /\ local' = [local EXCEPT ![s] = Loc(kind, row.id, name, 0, NoData)]
    /\ pc' = [pc EXCEPT ![s] = "decide"]
    /\ UNCHANGED <<db, next_id, messages, calls>>

\* a failed dependents query counted as a dependent (the guard fails closed)
Check_FailClosed(s, kind, row, name, depTable, depKey, fault) ==
    /\ local' = [local EXCEPT ![s] =
           Loc(kind, row.id, name,
               IF fault THEN 1
               ELSE Len(get_data(db, depTable, (depKey :> row.id), fault)), NoData)]
    /\ calls' = [calls EXCEPT ![s] = @ \o <<Call("select", depTable, depKey, row.id, fault)>>]
    /\ pc' = [pc EXCEPT ![s] = "decide"]
    /\ UNCHANGED <<db, next_id, messages>>

\* first half of a guarded delete: the dependents query, its result kept
Check(s, kind, row, name, depTable, depKey, fault) ==
    /\ local' = [local EXCEPT ![s] =
           Loc(kind, row.id, name,
               Len(get_data(db, depTable, (depKey :> row.id), fault)), NoData)]
    /\ calls' = [calls EXCEPT ![s] = @ \o <<Call("select", depTable, depKey, row.id, fault)>>]
    /\ pc' = [pc EXCEPT ![s] = "decide"]
    /\ UNCHANGED <<db, next_id, messages>>

\* the veto branch left out: the delete call is issued whatever the query found
Decide_NoVeto(s, table, vetoMsg, okMsg, fault) ==
    /\ Finish(s, delete_data(db, table, local[s].id, fault),
              IF delete_ok(db, table, local[s].id, fault) THEN <<okMsg>> ELSE <<>>,
              <<Call("delete", table, "id", local[s].id, fault)>>, local[s])
    /\ UNCHANGED next_id

\* second half: `if dependents: veto message  elif delete_data(...): success`
Decide(s, table, vetoMsg, okMsg, fault) ==
    /\ IF local[s].n > 0
       THEN Finish(s, db, <<vetoMsg>>, <<>>, local[s])
       ELSE Finish(s, delete_data(db, table, local[s].id, fault),
                   IF delete_ok(db, table, local[s].id, fault) THEN <<okMsg>> ELSE <<>>,
                   <<Call("delete", table, "id", local[s].id, fault)>>, local[s])
    /\ UNCHANGED next_id

(* --------------------------- brand screen ----------------------------- *)
\* brand_management, add_brand_form
AddBrand(s, brand_name, fault) ==
    /\ pc[s] = "idle"
    /\ AddNamed(s, "add_brand", "brands", [brand_name |-> brand_name], brand_name, fault,
                MsgBrandAdded(brand_name), MsgBrandNameRequired)

\* brand_management, delete button of a listed brand: the dependents query
DeleteBrandCheck(s, b, fault) ==
    /\ pc[s] = "idle"
    /\ LET brands == get_brands(db, FALSE)
       IN /\ Has(brands, "id", b)
          /\ Check(s, "brand", First(brands, "id", b),
                   First(brands, "id", b).brand_name, "products", "brand_id", fault)

\* brand_management, lines 378-381
DeleteBrandDecide(s, fault) ==
    /\ pc[s] = "decide"
    /\ local[s].kind = "brand"
    /\ Decide(s, "brands", MsgLinkedProducts(local[s].n),
              MsgBrandDeleted(local[s].name), fault)

(* ------------------------- part-group screen -------------------------- *)
\* partgroup_management, add_group1_form
AddGroup1(s, group_name, fault) ==
    /\ pc[s] = "idle"
    /\ AddNamed(s, "add_group1", "part_groups",
                [group_name |-> group_name, parent_id |-> None],
                group_name, fault, MsgGroup1Added(group_name), MsgGroupNameRequired)

\* partgroup_management, tab 1: delete button of a row of get_partgroup1
DeleteGroup1Check(s, g, fault) ==
    /\ pc[s] = "idle"
    /\ LET group1_list == get_partgroup1(db, FALSE)
       IN /\ Has(group1_list, "id", g)
          /\ Check(s, "group1", First(group1_list, "id", g),
                   First(group1_list, "id", g).group_name,
                   "part_groups", "parent_id", fault)

DeleteGroup1Decide(s, fault) ==
    /\ pc[s] = "decide"
    /\ local[s].kind = "group1"
    /\ Decide(s, "part_groups", MsgSubgroups(local[s].n),
              MsgGroupDeleted(local[s].name), fault)

\* partgroup_management, add_group2_form: the parent is picked by name from
\* get_partgroup1; the button is disabled while parent_id is falsy
AddGroup2(s, group1_name, group_name, fault) ==
    /\ pc[s] = "idle"
    /\ LET group1_list == get_partgroup1(db, FALSE)
           parent_id == FirstId(group1_list, "group_name", group1_name)
       IN /\ parent_id # None
          /\ AddNamed(s, "add_group2", "part_groups",
                      [group_name |-> group_name, parent_id |-> parent_id],
                      group_name, fault, MsgGroup2Added(group_name),
                      MsgGroupNameRequired)

\* partgroup_management, tab 2: delete button of a row of
\* get_partgroup2(selected_group1_id)
DeleteGroup2Check(s, selected_group1, g, fault) ==
    /\ pc[s] = "idle"
    /\ LET group1_list == get_partgroup1(db, FALSE)
           selected_group1_id == FirstId(group1_list, "group_name", selected_group1)
           group2_list == get_partgroup2(db, selected_group1_id, FALSE)
       IN /\ selected_group1_id # None
          /\ Has(group2_list, "id", g)
          /\ Check(s, "group2", First(group2_list, "id", g),
                   First(group2_list, "id", g).group_name,
                   "products", "partgroup2_id", fault)

DeleteGroup2Decide(s, fault) ==
    /\ pc[s] = "decide"
    /\ local[s].kind = "group2"
    /\ Decide(s, "part_groups", MsgLinkedProducts(local[s].n),
              MsgGroupDeleted(local[s].name), fault)

(* --------------------------- product screen --------------------------- *)
MsgProductCreated == <<"product registered">>
MsgProductUpdated == <<"product updated">>
MsgProductDeleted == <<"product deleted">>
MsgLinkedStock == <<"linked stock exists, cannot delete">>
MsgUpdateDeleteError(e) == <<"update/delete error: ", e>>

\* get_data(products, "*, brands(brand_name), part_groups(group_name)"): each
\* row carries the referenced brand and group; a missing one is None (here <<>>)
get_products_embedded(base, fault) ==
    LET rows == get_data(base, "products", NoFilters, fault)
        Emb(t, i, col) == IF i \in DOMAIN base[t] THEN <<base[t][i][col]>> ELSE <<>>
    IN [j \in 1..Len(rows) |->
           rows[j] @@ [brands |-> Emb("brands", rows[j].brand_id, "brand_name"),
                       part_groups |-> Emb("part_groups", rows[j].partgroup2_id,
                                           "group_name")]]

\* product_management tab 2, lines 188-205, for the product and the group 1
\* picked in the widgets: err is the exception raised on the way, "" if none
ProductTab(base, selected_product, partgroup1_name, lf) ==
    LET products == get_products_embedded(base, FALSE)
        product_data == First(products, "product_name", selected_product)
        brands == get_brands(base, lf)
        partgroup1_list == get_partgroup1(base, FALSE)
        partgroup1_id == FirstId(partgroup1_list, "group_name", partgroup1_name)
        partgroup2_list == get_partgroup2(base, partgroup1_id, FALSE)
    IN [product_data |-> product_data,
        brands |-> brands,
        partgroup2_list |-> partgroup2_list,
        err |-> IF product_data.brands = <<>> THEN "TypeError"
                ELSE IF ~Has(brands, "brand_name", product_data.brands[1])
                     THEN "ValueError"
                ELSE IF product_data.part_groups = <<>> THEN "TypeError"
                ELSE IF ~Has(partgroup2_list, "group_name", product_data.part_groups[1])
                     THEN "ValueError"
                ELSE ""]

\* the widget values a run of tab 2 can see: a listed product name, and a
\* listed group-1 name (None when there is no group)
ProductTabPick(base, selected_product, partgroup1_name) ==
    /\ Has(get_products_embedded(base, FALSE), "product_name", selected_product)
    /\ \/ Has(get_partgroup1(base, FALSE), "group_name", partgroup1_name)
       \/ get_partgroup1(base, FALSE) = <<>>

\* what the rendering of tab 2 appends when it follows the tab 1 handler in
\* the same run
ProductTabTrail(base, selected_product, partgroup1_name, lf) ==
    IF get_products_embedded(base, FALSE) = <<>> THEN <<>>
    ELSE IF ProductTab(base, selected_product, partgroup1_name, lf).err = "" THEN <<>>
    ELSE <<MsgUpdateDeleteError(ProductTab(base, selected_product,
                                           partgroup1_name, lf).err)>>

\* product_management tab 1, product_form submit (the button is disabled
\* unless a brand and a group 2 are picked), then the rendering of tab 2
CreateProduct(s, brand_name, partgroup1_name, partgroup2_name, product_name, product_code, fault, sel, selg, lf) ==
    /\ pc[s] = "idle"
    /\ LET brands == get_brands(db, FALSE)
           brand_id == FirstId(brands, "brand_name", brand_name)
           partgroup1_list == get_partgroup1(db, FALSE)
           partgroup1_id == FirstId(partgroup1_list, "group_name", partgroup1_name)
           partgroup2_list == get_partgroup2(db, partgroup1_id, FALSE)
           partgroup2_id == FirstId(partgroup2_list, "group_name", partgroup2_name)
           data == [product_name |-> product_name, product_code |-> product_code,
                    brand_id |-> brand_id, partgroup2_id |-> partgroup2_id]
           v == validate_product_data(data)
           ok == v.valid /\ insert_ok(fault)
           after == IF v.valid THEN insert_data(db, "products", data, fault) ELSE db
       IN /\ brand_id # None
          /\ partgroup1_id # None
          /\ partgroup2_id # None
          /\ v.valid => CanInsert("products")
          /\ get_products_embedded(after, FALSE) # <<>> =>
                 ProductTabPick(after, sel, selg)
          /\ Finish(s, after,
                    <<IF ok THEN MsgProductCreated ELSE v.msg>>
                        \o ProductTabTrail(after, sel, selg, lf),
                    IF v.valid THEN <<Call("insert", "products", "", None, fault)>> ELSE <<>>,
                    Loc("create_product", None, product_name, 0, data))
          /\ Bump("products", ok)

\* product_management tab 2: a run that raises before the form's buttons
ProductTabRaise(s, selected_product, partgroup1_name, lf) ==
    /\ pc[s] = "idle"
    /\ ProductTabPick(db, selected_product, partgroup1_name)
    /\ ProductTab(db, selected_product, partgroup1_name, lf).err # ""
    /\ Finish(s, db, <<MsgUpdateDeleteError(
                  ProductTab(db, selected_product, partgroup1_name, lf).err)>>, <<>>,
              Loc("product_tab", None, selected_product, 0, NoData))
    /\ UNCHANGED next_id

\* product_management tab 2, update button
UpdateProduct(s, selected_product, brand_name, partgroup1_name, partgroup2_name, product_name, product_code, fault) ==
    /\ pc[s] = "idle"
    /\ ProductTabPick(db, selected_product, partgroup1_name)
    /\ LET t == ProductTab(db, selected_product, partgroup1_name, FALSE)
           brand_id == FirstId(t.brands, "brand_name", brand_name)
           partgroup2_id == FirstId(t.partgroup2_list, "group_name", partgroup2_name)
           data == [product_name |-> product_name, product_code |-> product_code,
                    brand_id |-> brand_id, partgroup2_id |-> partgroup2_id]
           v == validate_product_data(data)
           id == t.product_data.id
       IN /\ t.err = ""
          /\ brand_id # None
          /\ partgroup2_id # None
          /\ Finish(s, IF v.valid THEN update_data(db, "products", data, id, fault)
                       ELSE db,
                    <<IF v.valid /\ update_ok(db, "products", id, fault)
                      THEN MsgProductUpdated ELSE v.msg>>,
                    IF v.valid THEN <<Call("update", "products", "id", id, fault)>> ELSE <<>>,
                    Loc("update_product", id, selected_product, 0, data))
    /\ UNCHANGED next_id

\* product_management tab 2, delete button: the dependents query
DeleteProductCheck(s, selected_product, partgroup1_name, fault) ==
    /\ pc[s] = "idle"
    /\ ProductTabPick(db, selected_product, partgroup1_name)
    /\ LET t == ProductTab(db, selected_product, partgroup1_name, FALSE)
       IN /\ t.err = ""
          /\ Check(s, "product", t.product_data, t.product_data.product_name,
                   "stock", "product_id", fault)

\* product_management, lines 233-236
DeleteProductDecide(s, fault) ==
    /\ pc[s] = "decide"
    /\ local[s].kind = "product"
    /\ Decide(s, "products", MsgLinkedStock, MsgProductDeleted, fault)

(* ---------------------------- stock screen ---------------------------- *)
MsgStockCreated == <<"stock registered">>
MsgStockUpdated == <<"stock updated">>
MsgStockDeleted == <<"stock deleted">>
MsgStockError(e) == <<"stock update/delete error: ", e>>

\* f"{p['product_name']} ({p['product_code']})"
Label(name, code) == <<name, " (", code, ")">>

WithLabels(rows) ==
    [j \in 1..Len(rows) |->
        rows[j] @@ [label |-> Label(rows[j].product_name, rows[j].product_code)]]

\* supabase.table("stock").select("*, products(product_name, product_code)"):
\* each row carries the label of its product; a missing product is None (<<>>)
get_stock_embedded(base) ==
    LET rows == get_data(base, "stock", NoFilters, FALSE)
    IN [j \in 1..Len(rows) |->
           rows[j] @@ [products |->
               IF rows[j].product_id \in DOMAIN base["products"]
               THEN <<Label(base["products"][rows[j].product_id].product_name,
                            base["products"][rows[j].product_id].product_code)>>
               ELSE <<>>]]

\* stock_management tab 2, lines 292-302, for the stock row picked in the
\* selectbox: err is the exception raised on the way, "" if none
StockTab(base, selected_stock, lf) ==
    LET stock_items == get_stock_embedded(base)
        stock_data == First(stock_items, "id", selected_stock)
        products == WithLabels(get_data(base, "products", NoFilters, lf))
    IN [stock_data |-> stock_data,
        products |-> products,
        err |-> IF \E j \in 1..Len(stock_items) : stock_items[j].products = <<>>
                THEN "TypeError"
                ELSE IF ~Has(products, "label", stock_data.products[1])
                     THEN "ValueError"
                ELSE ""]

\* the exception of tab 2 when the stock query itself may fail (sf): the
\* query is issued on the client directly, outside get_data
StockTabErr(base, selected_stock, sf, lf) ==
    IF sf THEN "APIError" ELSE StockTab(base, selected_stock, lf).err

\* what the rendering of tab 2 appends when it follows the tab 1 handler in
\* the same run
StockTabTrail(base, selected_stock, sf, lf) ==
    IF ~sf /\ get_stock_embedded(base) = <<>> THEN <<>>
    ELSE IF StockTabErr(base, selected_stock, sf, lf) = "" THEN <<>>
    ELSE <<MsgStockError(StockTabErr(base, selected_stock, sf, lf))>>

\* stock_management tab 1, stock_form submit, then the rendering of tab 2
CreateStock(s, product_name, product_code, quantity, fault, sel, sf, lf) ==
    /\ pc[s] = "idle"
    /\ LET products == WithLabels(get_data(db, "products", NoFilters, FALSE))
           product_id == FirstId(products, "label", Label(product_name, product_code))
           data == [product_id |-> product_id, quantity |-> quantity]
           v == validate_stock_data(data)
           ok == v.valid /\ insert_ok(fault)
           after == IF v.valid THEN insert_data(db, "stock", data, fault) ELSE db
       IN /\ product_id # None
          /\ v.valid => CanInsert("stock")
          /\ get_stock_embedded(after) # <<>> =>
                 Has(get_stock_embedded(after), "id", sel)
          /\ Finish(s, after,
                    <<IF ok THEN MsgStockCreated ELSE v.msg>>
                        \o StockTabTrail(after, sel, sf, lf),
                    IF v.valid THEN <<Call("insert", "stock", "", None, fault)>> ELSE <<>>,
                    Loc("create_stock", None, "", 0, data))
          /\ Bump("stock", ok)

\* stock_management tab 2: a run that raises before the form's buttons
StockTabRaise(s, selected_stock, sf, lf) ==
    /\ pc[s] = "idle"
    /\ sf \/ Has(get_stock_embedded(db), "id", selected_stock)
    /\ StockTabErr(db, selected_stock, sf, lf) # ""
    /\ Finish(s, db, <<MsgStockError(StockTabErr(db, selected_stock, sf, lf))>>, <<>>,
              Loc("stock_tab", None, "", 0, NoData))
    /\ UNCHANGED next_id

\* stock_management tab 2, update button
UpdateStock(s, selected_stock, product_name, product_code, quantity, fault) ==
    /\ pc[s] = "idle"
    /\ Has(get_stock_embedded(db), "id", selected_stock)
    /\ LET t == StockTab(db, selected_stock, FALSE)
           product_id == FirstId(t.products, "label", Label(product_name, product_code))
           data == [product_id |-> product_id, quantity |-> quantity]
           v == validate_stock_data(data)
           id == t.stock_data.id
       IN /\ t.err = ""
          /\ product_id # None
          /\ Finish(s, IF v.valid THEN update_data(db, "stock", data, id, fault) ELSE db,
                    <<IF v.valid /\ update_ok(db, "stock", id, fault)
                      THEN MsgStockUpdated ELSE v.msg>>,
                    IF v.valid THEN <<Call("update", "stock", "id", id, fault)>> ELSE <<>>,
                    Loc("update_stock", id, "", 0, data))
    /\ UNCHANGED next_id

\* stock_management tab 2, delete button: no guard
DeleteStock(s, selected_stock, fault) ==
    /\ pc[s] = "idle"
    /\ Has(get_stock_embedded(db), "id", selected_stock)
    /\ LET t == StockTab(db, selected_stock, FALSE)
           id == t.stock_data.id
       IN /\ t.err = ""
          /\ Finish(s, delete_data(db, "stock", id, fault),
                    IF delete_ok(db, "stock", id, fault) THEN <<MsgStockDeleted>> ELSE <<>>,
                    <<Call("delete", "stock", "id", id, fault)>>,
                    Loc("delete_stock", id, "", 0, NoData))
    /\ UNCHANGED next_id

(* ------------------------------ main ---------------------------------- *)
\* main(), lines 505-508: the queued messages are shown once and cleared
Flush(s) ==
    /\ pc[s] = "flush"
    /\ pc' = [pc EXCEPT ![s] = "idle"]
    /\ messages' = [messages EXCEPT ![s] = <<>>]
    /\ calls' = [calls EXCEPT ![s] = <<>>]
    /\ local' = [local EXCEPT ![s] = NoLocal]
    /\ UNCHANGED <<db, next_id>>

Ids == 1..MaxInserts

\* the runs of session s, the store failing only as F allows
Run(s, F) ==
    \/ \E n \in BrandNames \cup {""}, f \in F : AddBrand(s, n, f)
    \/ \E b \in Ids, f \in F : DeleteBrandCheck(s, b, f)
    \/ \E f \in F : DeleteBrandDecide(s, f)
    \/ \E n \in NameInputs, f \in F : AddGroup1(s, n, f)
    \/ \E g \in Ids, f \in F : DeleteGroup1Check(s, g, f)
    \/ \E f \in F : DeleteGroup1Decide(s, f)
    \/ \E p \in Names, n \in NameInputs, f \in F : AddGroup2(s, p, n, f)
    \/ \E p \in Names, g \in Ids, f \in F : DeleteGroup2Check(s, p, g, f)
    \/ \E f \in F : DeleteGroup2Decide(s, f)
    \/ \E b \in BrandNames, g1 \in Names, g2 \in Names, n \in NameInputs,
          c \in CodeInputs, f \in F, sel \in Names, selg \in Names, lf \in F :
          CreateProduct(s, b, g1, g2, n, c, f, sel, selg, lf)
    \/ \E sel \in Names, selg \in Names, lf \in F : ProductTabRaise(s, sel, selg, lf)
    \/ \E sel \in Names, b \in BrandNames, g1 \in Names, g2 \in Names,
          n \in NameInputs, c \in CodeInputs, f \in F :
          UpdateProduct(s, sel, b, g1, g2, n, c, f)
    \/ \E sel \in Names, g1 \in Names, f \in F : DeleteProductCheck(s, sel, g1, f)
    \/ \E f \in F : DeleteProductDecide(s, f)
    \/ \E n \in Names, c \in Codes, q \in QtyInputs, f \in F, sel \in Ids,
          sf \in F, lf \in F : CreateStock(s, n, c, q, f, sel, sf, lf)
    \/ \E sel \in Ids, n \in Names, c \in Codes, q \in QtyInputs, f \in F :
          UpdateStock(s, sel, n, c, q, f)
    \/ \E sel \in Ids, f \in F : DeleteStock(s, sel, f)
    \/ Flush(s)

\* one session, any store call may fail
Next ==
    \/ Run(1, BOOLEAN)
    \/ \E sel \in Ids, sf \in BOOLEAN, lf \in BOOLEAN : StockTabRaise(1, sel, sf, lf)

Spec == Init /\ [][Next]_vars

\* one session, no store call fails
NextNoFault == Run(1, {FALSE})

SpecNoFault == Init /\ [][NextNoFault]_vars

\* two sessions over the same store, no store call fails: each session runs
\* the script on its own, the runs interleave at the store round trips
NextTwoSessions == \E s \in Sessions : Run(s, {FALSE})

SpecTwoSessions == Init /\ [][NextTwoSessions]_vars

(* ======================= properties of the screens ==================== *)
Dependents(base, table, key, id) ==
    {i \in DOMAIN base[table] : base[table][i][key] = id}

Ops(log) == {log[i].op : i \in 1..Len(log)}

\* the message carries the number n as one of its fragments
Reports(msg, n) == \E i \in 1..Len(msg) : msg[i] = ToString(n)

RowIds(rows) == {rows[i].id : i \in 1..Len(rows)}

\* C1: whenever the brand delete handler decides for a brand b that n >= 1
\* products rows reference, it issues no delete call, leaves the store as it
\* is and queues the message reporting n.
C1_BrandWithProductsNotDeleted ==
    [][\A s \in Sessions :
          LET n == Cardinality(Dependents(db, "products", "brand_id", local[s].id))
          IN (pc[s] = "decide" /\ local[s].kind = "brand" /\ pc'[s] = "flush" /\ n >= 1)
             => /\ db' = db
                /\ "delete" \notin Ops(calls'[s])
                /\ messages'[s] = <<MsgLinkedProducts(n)>>]_vars

\* C2: no part_groups row that has a child group or a referencing product is
\* ever deleted, whichever delete button of the part-group screen is used.
C2_GroupWithDependentsNotDeleted ==
    [][\A g \in DOMAIN db["part_groups"] :
          (\/ Dependents(db, "part_groups", "parent_id", g) # {}
           \/ Dependents(db, "products", "partgroup2_id", g) # {})
          => g \in DOMAIN db'["part_groups"]]_vars

\* C3: every part_groups row with a parent references a row that has none.
C3_TwoLevels ==
    \A g \in DOMAIN db["part_groups"] :
        db["part_groups"][g].parent_id # None =>
            /\ db["part_groups"][g].parent_id \in DOMAIN db["part_groups"]
            /\ db["part_groups"][db["part_groups"][g].parent_id].parent_id = None

\* C4: get_partgroup1 returns exactly the rows whose parent_id is null, and
\* get_partgroup2(r) exactly the rows whose parent_id is r.
C4_RepositoryFilters ==
    /\ RowIds(get_partgroup1(db, FALSE)) =
           {g \in DOMAIN db["part_groups"] : db["part_groups"][g].parent_id = None}
    /\ \A r \in DOMAIN db["part_groups"] :
           RowIds(get_partgroup2(db, r, FALSE)) =
               {g \in DOMAIN db["part_groups"] : db["part_groups"][g].parent_id = r}

\* C5: whenever the product delete handler decides for a product that n >= 1
\* stock rows reference, it issues no delete call, leaves the store as it is
\* and queues one message that reports n.
C5_ProductWithStockVetoedWithCount ==
    [][\A s \in Sessions :
          LET n == Cardinality(Dependents(db, "stock", "product_id", local[s].id))
          IN (pc[s] = "decide" /\ local[s].kind = "product" /\ pc'[s] = "flush" /\ n >= 1)
             => /\ db' = db
                /\ "delete" \notin Ops(calls'[s])
                /\ Len(messages'[s]) = 1
                /\ Reports(messages'[s][1], n)]_vars

\* C6: a stock create or update whose payload has quantity < 0 is rejected
\* before any store call: no insert or update is issued, the store is left as
\* it is, and the validation message is what the handler queues.
C6_NegativeQuantityRejected ==
    [][\A s \in Sessions :
          (/\ pc[s] = "idle" /\ pc'[s] = "flush"
           /\ local'[s].kind \in {"create_stock", "update_stock"}
           /\ local'[s].data.quantity < 0)
          => /\ db' = db
             /\ calls'[s] = <<>>
             /\ Len(messages'[s]) >= 1
             /\ messages'[s][1] = MsgQuantityNegative
             /\ {MsgStockCreated, MsgStockUpdated} \cap Range(messages'[s]) = {}]_vars

C6_Witness ==
    /\ pc[1] = "flush"
    /\ local[1].kind = "update_stock"
    /\ local[1].data.quantity < 0
    /\ messages[1] = <<MsgQuantityNegative>>

\* C7: validate_product_data fails with the product-name message when the
\* name is empty (whatever the code), with the product-code message when only
\* the code is empty, and is valid otherwise; when it fails, the product
\* create and update handlers issue no store call, leave the store as it is
\* and queue that message verbatim; when it is valid they issue the write.
C7_ProductValidationBeforeWrite ==
    [][\A s \in Sessions :
          (/\ pc[s] = "idle" /\ pc'[s] = "flush"
           /\ local'[s].kind \in {"create_product", "update_product"})
          => LET d == local'[s].data
                 expected == IF d.product_name = "" THEN MsgProductNameRequired
                             ELSE MsgProductCodeRequired
             IN IF d.product_name = "" \/ d.product_code = ""
                THEN /\ validate_product_data(d) = [valid |-> FALSE, msg |-> expected]
                     /\ db' = db
                     /\ calls'[s] = <<>>
                     /\ Len(messages'[s]) >= 1
                     /\ messages'[s][1] = expected
                     /\ {MsgProductCreated, MsgProductUpdated}
                            \cap Range(messages'[s]) = {}
                ELSE /\ validate_product_data(d).valid
                     /\ Ops(calls'[s]) = {IF local'[s].kind = "create_product"
                                          THEN "insert" ELSE "update"}]_vars

C7_Witness ==
    /\ pc[1] = "flush"
    /\ local[1].kind = "update_product"
    /\ local[1].data.product_name = ""
    /\ local[1].data.product_code = ""
    /\ messages[1] = <<MsgProductNameRequired>>

\* the dependents query that guards the delete call d
IsGuardOf(c, d) ==
    /\ c.op = "select"
    /\ c.val = d.val
    /\ <<d.table, c.table, c.key>> \in
           {<<"brands", "products", "brand_id">>,
            <<"part_groups", "part_groups", "parent_id">>,
            <<"part_groups", "products", "partgroup2_id">>,
            <<"products", "stock", "product_id">>}

\* C8: in every run of a guarded delete the dependents query is issued first,
\* the delete call at most once and only after that query, and no dependents
\* query after the delete call.
C8_CheckDecideDelete ==
    \A s \in Sessions :
        /\ (pc[s] = "decide") =>
               /\ Len(calls[s]) = 1
               /\ calls[s][1].op = "select"
               /\ calls[s][1].val = local[s].id
        /\ \A i \in 1..Len(calls[s]) :
              (calls[s][i].op = "delete" /\ calls[s][i].table # "stock") =>
                  /\ \E j \in 1..(i - 1) : IsGuardOf(calls[s][j], calls[s][i])
                  /\ \A j \in 1..Len(calls[s]) : j # i => calls[s][j].op # "delete"
                  /\ \A j \in (i + 1)..Len(calls[s]) : calls[s][j].op # "select"

C8_Witness ==
    /\ pc[1] = "flush"
    /\ local[1].kind = "group1"
    /\ Len(calls[1]) = 2
    /\ calls[1][2].op = "delete"

HandlerKinds ==
    {"add_brand", "brand", "add_group1", "group1", "add_group2", "group2",
     "create_product", "update_product", "product",
     "create_stock", "update_stock", "delete_stock"}

SuccessMsgs ==
    {MsgProductCreated, MsgProductUpdated, MsgProductDeleted,
     MsgStockCreated, MsgStockUpdated, MsgStockDeleted}
    \cup {MsgBrandAdded(n) : n \in Names} \cup {MsgBrandDeleted(n) : n \in Names}
    \cup {MsgGroup1Added(n) : n \in Names} \cup {MsgGroup2Added(n) : n \in Names}
    \cup {MsgGroupDeleted(n) : n \in Names}

NonEmptyText(msg) == \E i \in 1..Len(msg) : msg[i] # ""

\* C9: whenever a create, update or delete run leaves the store as it is and
\* reports no success, exactly one non-empty message has been queued by it.
C9_FailureHasOneMessage ==
    [][\A s \in Sessions :
          (/\ pc[s] # "flush" /\ pc'[s] = "flush"
           /\ local'[s].kind \in HandlerKinds
           /\ db' = db
           /\ Range(messages'[s]) \cap SuccessMsgs = {})
          => /\ Len(messages'[s]) = 1
             /\ NonEmptyText(messages'[s][1])]_vars

ValidCreate(s) ==
    /\ pc[s] = "idle" /\ pc'[s] = "flush"
    /\ local'[s].kind = "create_product"
    /\ local'[s].data.product_name # ""
    /\ local'[s].data.product_code # ""

Created(s) ==
    /\ Cardinality(DOMAIN db'["products"]) = Cardinality(DOMAIN db["products"]) + 1
    /\ Len(messages'[s]) >= 1
    /\ messages'[s][1] = MsgProductCreated
    /\ Has(get_data(db', "products", NoFilters, FALSE), "product_code",
           local'[s].data.product_code)

\* C10 as stated: every product create with a valid payload inserts one row,
\* queues the success message, and a listing of products then has a row with
\* the payload's product_code.
C10_ValidCreateSucceeds ==
    [][\A s \in Sessions : ValidCreate(s) => Created(s)]_vars

\* C10: every product create with a valid payload issues exactly one insert
\* call on products; unless that call fails at the store, one row is inserted,
\* the success message is queued, and a listing of products then has a row
\* with the payload's product_code; if it fails, no row is inserted and no
\* success message is queued.
C10_ValidCreateSucceedsUnlessStoreFails ==
    [][\A s \in Sessions :
          ValidCreate(s) =>
              /\ Len(calls'[s]) = 1
              /\ calls'[s][1].op = "insert"
              /\ calls'[s][1].table = "products"
              /\ IF calls'[s][1].failed
                 THEN db' = db /\ MsgProductCreated \notin Range(messages'[s])
                 ELSE Created(s)]_vars

C10_Witness ==
    /\ pc[1] = "flush"
    /\ local[1].kind = "create_product"
    /\ Len(calls[1]) = 1
    /\ ~calls[1][1].failed
    /\ messages[1][1] = MsgProductCreated
    /\ \E i \in DOMAIN db["products"] : db["products"][i] = local[1].data

\* the products rows whose brand or part group is no longer in the store
DanglingProducts(base) ==
    {p \in DOMAIN base["products"] :
        \/ base["products"][p].brand_id \notin DOMAIN base["brands"]
        \/ base["products"][p].partgroup2_id \notin DOMAIN base["part_groups"]}

\* C11, second half: the actions of one session alone, the store never
\* failing, reach no state in which a brand or a part group is deleted while a
\* product still references it.
C11_SingleSessionNoDanglingProduct == DanglingProducts(db) = {}

\* C11, first half: session 1 has queried the products of a brand, found
\* none, and has deleted the brand, while a product that another session
\* inserted in between references it.
C11_RaceDeletedReferencedBrand ==
    /\ pc[1] = "flush"
    /\ local[1].kind = "brand"
    /\ local[1].n = 0
    /\ local[1].id \notin DOMAIN db["brands"]
    /\ Dependents(db, "products", "brand_id", local[1].id) # {}

\* the same for the group-2 delete
C11_RaceDeletedReferencedGroup ==
    /\ pc[1] = "flush"
    /\ local[1].kind = "group2"
    /\ local[1].n = 0
    /\ local[1].id \notin DOMAIN db["part_groups"]
    /\ Dependents(db, "products", "partgroup2_id", local[1].id) # {}

GuardKinds == {"brand", "group1", "group2", "product"}

\* the table a guarded delete handler deletes from
TargetTable(kind) ==
    IF kind = "brand" THEN "brands"
    ELSE IF kind = "product" THEN "products"
    ELSE "part_groups"

VetoMsgs ==
    {MsgLinkedStock} \cup {MsgLinkedProducts(n) : n \in 0..MaxInserts}
                     \cup {MsgSubgroups(n) : n \in 0..MaxInserts}

\* C12: whenever the dependents query of a brand, part-group or product
\* delete has failed at the adapter, the handler goes on as if there were no
\* dependents: it queues no veto message and issues the delete call for the
\* target row, and unless that call fails too the row is gone afterwards,
\* whatever rows of the store reference it.
C12_FailedGuardQueryDeletes ==
    [][\A s \in Sessions :
          (/\ pc[s] = "decide" /\ pc'[s] = "flush"
           /\ local[s].kind \in GuardKinds
           /\ calls[s][Len(calls[s])].op = "select"
           /\ calls[s][Len(calls[s])].failed)
          => LET d == calls'[s][Len(calls'[s])]
             IN /\ local[s].n = 0
                /\ Len(calls'[s]) = Len(calls[s]) + 1
                /\ d.op = "delete"
                /\ d.table = TargetTable(local[s].kind)
                /\ d.val = local[s].id
                /\ Range(messages'[s]) \cap VetoMsgs = {}
                /\ ~d.failed => local[s].id \notin DOMAIN db'[d.table]]_vars

C12_Witness ==
    /\ pc[1] = "flush"
    /\ local[1].kind = "product"
    /\ Len(calls[1]) = 2
    /\ calls[1][1].op = "select" /\ calls[1][1].failed
    /\ calls[1][2].op = "delete" /\ ~calls[1][2].failed
    /\ local[1].id \notin DOMAIN db["products"]
    /\ Dependents(db, "stock", "product_id", local[1].id) # {}

\* C13: in one session without store failures, after any sequence of create,
\* update and delete runs, every stock row's product_id is the id of a
\* products row and every products row's brand_id is the id of a brands row.
C13_ReferentialIntegrity ==
    /\ \A i \in DOMAIN db["stock"] :
           db["stock"][i].product_id \in DOMAIN db["products"]
    /\ \A p \in DOMAIN db["products"] :
           db["products"][p].brand_id \in DOMAIN db["brands"]

\* a brand delete has just been vetoed because of a product that a stock row
\* references in turn
C13_Witness ==
    /\ pc[1] = "flush"
    /\ local[1].kind = "brand"
    /\ local[1].n >= 1
    /\ local[1].id \in DOMAIN db["brands"]
    /\ \E i \in DOMAIN db["stock"] :
           /\ db["stock"][i].product_id \in DOMAIN db["products"]
           /\ db["products"][db["stock"][i].product_id].brand_id = local[1].id

\* the rows the user may have picked when the selection list of tab 2 hands
\* the script the text selected_product: the list shows one entry per row,
\* labelled with the row's product_name (line 190)
PickedRows(base, selected_product) ==
    {p \in DOMAIN base["products"] :
        base["products"][p].product_name = selected_product}

\* C14: in every product update or delete run, whichever listed row the user
\* picked, its id is the id of the row the handler works on, and the id of
\* every call the run issues on products (update, delete) and on stock (the
\* dependents query).
C14_ActsOnPickedProduct ==
    [][\A s \in Sessions :
          (/\ pc[s] \in {"idle", "decide"} /\ pc'[s] # pc[s]
           /\ local'[s].kind \in {"update_product", "product"})
          => \A p \in PickedRows(db, local'[s].name) :
                 /\ local'[s].id = p
                 /\ \A i \in 1..Len(calls'[s]) : calls'[s][i].val = p]_vars
====
